---- MODULE Spec2Model ----
(***************************************************************************)
(* A model of bitnet_api_server.py: the conversation store and the chat    *)
(* endpoints, the prompt formatter, the process runner (run_completion,    *)
(* generate_stream) and the output classifier.                             *)
(*                                                                         *)
(* Text is a sequence of tokens (a token stands for a run of characters    *)
(* that the program never looks into): "Assistant:" is <<"Assistant",":">>,*)
(* a line read from the pipe ends with the token "\n".                     *)
(***************************************************************************)
EXTENDS Integers, Sequences, FiniteSets, TLC

\* ------------------------------------------------------------------ text

\* p occurs in s at position i
OccursAt(s, p, i) ==
    /\ i >= 1
    /\ i + Len(p) - 1 <= Len(s)
    /\ \A k \in 1..Len(p) : s[i + k - 1] = p[k]

\* Python's "p in s" (the empty text occurs in every text)
Contains(s, p) == \E i \in 1..(Len(s) + 1) : OccursAt(s, p, i)

\* Python's s.endswith(p)
EndsWith(s, p) == Len(p) <= Len(s) /\ OccursAt(s, p, Len(s) - Len(p) + 1)

\* index of the first occurrence of p in s (s.find(p) + 1)
Find(s, p) == CHOOSE i \in 1..(Len(s) + 1) :
                 /\ OccursAt(s, p, i)
                 /\ \A j \in 1..(i - 1) : ~OccursAt(s, p, j)

\* s.split(p, 1)[1] for a non-empty p that occurs in s
SplitAfter(s, p) == SubSeq(s, Find(s, p) + Len(p), Len(s))

Whitespace == {" ", "\n"}

\* Python's s.strip()
Strip(s) ==
    LET keep == {i \in 1..Len(s) : s[i] \notin Whitespace}
    IN  IF keep = {} THEN << >>
        ELSE LET lo == CHOOSE i \in keep : \A j \in keep : i <= j
                 hi == CHOOSE i \in keep : \A j \in keep : j <= i
             IN  SubSeq(s, lo, hi)

\* "".join(parts)
RECURSIVE Join(_)
Join(parts) == IF parts = << >> THEN << >>
               ELSE Head(parts) \o Join(Tail(parts))

\* ------------------------------------------------------ prompt formatter

Cue == <<"Assistant", ":">>

\* the line format_chat_prompt adds for one message
RoleLine(msg) ==
    IF msg.role = "system" THEN <<"System", ":", " ">> \o msg.content \o <<"\n">>
    ELSE IF msg.role = "user" THEN <<"User", ":", " ">> \o msg.content \o <<"\n">>
    ELSE IF msg.role = "assistant" THEN <<"Assistant", ":", " ">> \o msg.content \o <<"\n">>
    ELSE << >>

RECURSIVE RoleLines(_)
RoleLines(messages) ==
    IF messages = << >> THEN << >>
    ELSE RoleLine(Head(messages)) \o RoleLines(Tail(messages))

\* a faulty variant: the cue is left out when the history already ends with an
\* assistant message
format_chat_prompt_NoCueAfterAssistant(messages) ==
    LET prompt == RoleLines(messages)
    IN  IF messages # << >> /\ messages[Len(messages)].role = "assistant"
        THEN prompt
        ELSE prompt \o Cue

format_chat_prompt(messages) ==
    LET prompt == RoleLines(messages)
    IN  IF ~EndsWith(prompt, Cue) THEN prompt \o Cue ELSE prompt

\* ------------------------------------------------------ output classifier

\* the marker list of run_completion and generate_stream
Markers == { <<"llama_">>, <<"gguf_">>, <<"main", ":">>, <<"build", ":">>,
             <<"system_info", ":">>, <<"warning", ":">>, <<"sampler">>,
             <<"generate", ":">>, <<"eval", " ", "time">> }

\* any(marker in line for marker in [...])
IsDiagnostic(line) == \E marker \in Markers : Contains(line, marker)

\* a faulty variant: a line is collected before any anchor was seen
ClassifyLine_CollectsBeforeAnchor(prompt, st, line) ==
    IF IsDiagnostic(line) THEN st
    ELSE IF Contains(line, prompt) /\ ~st.response_started
    THEN IF prompt = << >>
         THEN [st EXCEPT !.raised = TRUE]
         ELSE [st EXCEPT !.output_lines = Append(@, SplitAfter(line, prompt)),
                         !.response_started = TRUE]
    ELSE IF Contains(line, Cue) /\ ~st.response_started
    THEN [st EXCEPT !.output_lines = Append(@, SplitAfter(line, Cue)),
                    !.response_started = TRUE]
    ELSE [st EXCEPT !.output_lines = Append(@, line)]

\* a faulty variant: the anchors are looked for before the markers
ClassifyLine_AnchorBeforeMarkers(prompt, st, line) ==
    IF Contains(line, prompt) /\ ~st.response_started
    THEN IF prompt = << >>
         THEN [st EXCEPT !.raised = TRUE]
         ELSE [st EXCEPT !.output_lines = Append(@, SplitAfter(line, prompt)),
                         !.response_started = TRUE]
    ELSE IF Contains(line, Cue) /\ ~st.response_started
    THEN [st EXCEPT !.output_lines = Append(@, SplitAfter(line, Cue)),
                    !.response_started = TRUE]
    ELSE IF IsDiagnostic(line) THEN st
    ELSE IF st.response_started
    THEN [st EXCEPT !.output_lines = Append(@, line)]
    ELSE st

\* The body of run_completion's read loop for one line that was read.
\* st = [response_started, output_lines, raised]; raised is the ValueError
\* of line.split("", 1).
ClassifyLine(prompt, st, line) ==
    IF IsDiagnostic(line) THEN st
    ELSE IF Contains(line, prompt) /\ ~st.response_started
    THEN IF prompt = << >>
         THEN [st EXCEPT !.raised = TRUE]
         ELSE [st EXCEPT !.output_lines = Append(@, SplitAfter(line, prompt)),
                         !.response_started = TRUE]
    ELSE IF Contains(line, Cue) /\ ~st.response_started
    THEN [st EXCEPT !.output_lines = Append(@, SplitAfter(line, Cue)),
                    !.response_started = TRUE]
    ELSE IF st.response_started
    THEN [st EXCEPT !.output_lines = Append(@, line)]
    ELSE st

ClassifierStart == [response_started |-> FALSE, output_lines |-> << >>, raised |-> FALSE]

\* the loop over the lines read, stopping at the first exception
RECURSIVE ClassifyAll(_, _, _)
ClassifyAll(prompt, st, lines) ==
    IF lines = << >> \/ st.raised THEN st
    ELSE ClassifyAll(prompt, ClassifyLine(prompt, st, Head(lines)), Tail(lines))

\* "".join(output_lines).strip()
ResponseText(output_lines) == Strip(Join(output_lines))

\* ------------------------------------------------------------------ state

VARIABLES
    conversation_store, \* the global dict: conversation id -> list of messages
    now,                \* int(time.time())
    served,             \* number of requests handled so far
    response,           \* what the last handler returned or raised, and to what
    turns,              \* the latest successful chat turns, in the order served
    streams,            \* the StreamingResponses handed out by the chat endpoints
    messages,           \* the formatter's argument
    prompt,             \* request.prompt / the formatter's result
    stream,             \* request.stream
    script,             \* lines the child process has yet to write to stdout
    pipe,               \* lines written to the stdout pipe and not yet read
    lines_read,         \* the lines the reader has taken, in order
    process,            \* "none", "running", "exited", "crashed" or "killed"
    ignores_sigterm,    \* the child installs a handler that ignores SIGTERM
    sigterm,            \* process.terminate() has been called
    expired,            \* time.time() - start_time > timeout
    response_started,
    output_lines,
    output_buffer,
    events,             \* what generate_stream has yielded
    result,             \* what run_completion returned or raised
    disconnected,       \* the client of the streamed response has gone away
    pc                  \* the position of the handler (or generator)

serverVars == <<conversation_store, now, served, response, turns, streams>>
fmtVars == <<messages>>
procVars == <<stream, script, pipe, lines_read, process, ignores_sigterm, sigterm, expired,
              response_started, output_lines, output_buffer, events, result>>
vars == <<serverVars, fmtVars, prompt, procVars, disconnected, pc>>

\* what the server's handlers, and the process runner's steps, leave alone
serverFrame == <<fmtVars, prompt, procVars, disconnected, pc>>
procFrame == <<serverVars, fmtVars, prompt, disconnected>>

\* ------------------------------------------------------------------ bounds

MaxRequests == 2    \* requests served in one run of the server
MaxTime == 2        \* seconds of the clock
MaxStreams == 1     \* streaming responses handed out
MaxHistory == 2     \* messages of a history given to the formatter
MaxLines == 3       \* lines of output given to the classifier alone
MaxScript == 2      \* lines of output of a child of the process runner

\* ------------------------------------------------------------------ values

Text(word) == <<word>>

UserMessage(content) == [role |-> "user", content |-> content]
SystemMessage(content) == [role |-> "system", content |-> content]
AssistantMessage(content) == [role |-> "assistant", content |-> content]

\* f"conv_{t}_{n}"
ConvId(t, n) == [name |-> "conv", t |-> t, n |-> n]
\* a string that does not have the form conv_<t>_<n>
PlainId(name) == [name |-> name, t |-> 0, n |-> 0]

\* ids a client may put in the path (or in the request's model field)
ClientIds == { PlainId("bitnet"), ConvId(1, 1) }

\* message lists a client may send
RequestMessages ==
    { << >>,
      << UserMessage(Text("Hi")) >>,
      << SystemMessage(Text("Brief")), UserMessage(Text("Bye")) >>,
      << UserMessage(Text("Hi")), AssistantMessage(Text("Hello")),
         UserMessage(Text("Bye")) >> }

\* ------------------------------------------------------------- the server
\*
\* The handlers are coroutines on one event loop. A non-streaming handler has
\* no suspension point: run_completion's blocking branch awaits nothing, so
\* the handler runs from its first line to its return as one step. A
\* streaming handler returns a StreamingResponse at once; its generator runs
\* later and is modelled step by step under SpecProc.

\* the output of the child behind the server's blocking completions
ServerScript == << Cue \o <<" ", "Hello", "\n">>, <<"main", ":", " ", "exit", "\n">> >>

\* What a blocking run_completion gives for the lines it read: the dict's
\* content, or the HTTPException(500) of its except clause.
BlockingResult(p, lines) ==
    LET st == ClassifyAll(p, ClassifierStart, lines)
    IN  IF st.raised THEN [kind |-> "error", content |-> << >>]
        ELSE [kind |-> "ok", content |-> ResponseText(st.output_lines)]

\* The results of a blocking run_completion: the loop reads the lines the
\* child wrote before poll() saw it exit (any prefix of its output), or the
\* call raises (spawn failure, timeout).
RunCompletionResults(p) ==
    { BlockingResult(p, SubSeq(ServerScript, 1, k)) : k \in 0..Len(ServerScript) }
        \cup { [kind |-> "error", content |-> << >>] }

NoId == PlainId("")
NoResponse == [endpoint |-> "none", status |-> 0, conversation_id |-> NoId,
               content |-> << >>, messages |-> << >>, streaming |-> FALSE,
               request |-> << >>]

Put(store, id, history) ==
    [k \in DOMAIN store \cup {id} |-> IF k = id THEN history ELSE store[k]]

\* [msg for msg in request.messages if msg.role == "user"]
UserMessages(msgs) == SelectSeq(msgs, LAMBDA m : m.role = "user")

\* what a chat turn writes: the request's latest user message, then the reply
TurnWrites(msgs, content) ==
    LET user_messages == UserMessages(msgs)
    IN  (IF user_messages # << >> THEN <<user_messages[Len(user_messages)]>> ELSE << >>)
            \o <<AssistantMessage(content)>>

LastTwo(s) == IF Len(s) > 2 THEN SubSeq(s, Len(s) - 1, Len(s)) ELSE s

\* a faulty variant: the request's list replaces the stored history
AppendUser_Replace(stored_messages, msgs) == msgs

\* conversation_chat: "Add new user message"
AppendUser(stored_messages, msgs) ==
    LET user_messages == UserMessages(msgs)
    IN  IF user_messages # << >>
        THEN Append(stored_messages, user_messages[Len(user_messages)])
        ELSE stored_messages

\* a faulty variant: a list that is not shorter is added to the stored one
ChatCompletionsHistory_Merges(store, conversation_id, current_messages) ==
    IF conversation_id \in DOMAIN store
    THEN IF Len(current_messages) < Len(store[conversation_id])
         THEN current_messages
         ELSE store[conversation_id] \o current_messages
    ELSE current_messages

\* chat_completions: "Check if we have history for this conversation"
ChatCompletionsHistory(store, conversation_id, current_messages) ==
    IF conversation_id \in DOMAIN store
    THEN IF Len(current_messages) < Len(store[conversation_id])
         THEN current_messages
         ELSE current_messages
    ELSE current_messages

ServerInit ==
    /\ conversation_store = << >>
    /\ now = 1
    /\ served = 0
    /\ response = NoResponse
    /\ turns = << >>
    /\ streams = << >>

Tick ==
    /\ now < MaxTime
    /\ now' = now + 1
    /\ UNCHANGED <<conversation_store, served, response, turns, streams>>
    /\ UNCHANGED serverFrame

create_conversation ==
    /\ served < MaxRequests
    /\ LET conversation_id == ConvId(now, Cardinality(DOMAIN conversation_store))
       IN  /\ conversation_store' = Put(conversation_store, conversation_id, << >>)
           /\ response' = [NoResponse EXCEPT !.endpoint = "create_conversation",
                                             !.status = 200,
                                             !.conversation_id = conversation_id]
    /\ served' = served + 1
    /\ turns' = << >>
    /\ UNCHANGED <<now, streams>>
    /\ UNCHANGED serverFrame

\* a faulty variant: an id that is not in the store gets an empty history
get_conversation_Creates ==
    /\ served < MaxRequests
    /\ \E conversation_id \in ClientIds \cup DOMAIN conversation_store :
          /\ conversation_store' =
                IF conversation_id \notin DOMAIN conversation_store
                THEN Put(conversation_store, conversation_id, << >>)
                ELSE conversation_store
          /\ response' = [NoResponse EXCEPT
                            !.endpoint = "get_conversation",
                            !.status = 200,
                            !.conversation_id = conversation_id,
                            !.messages = conversation_store'[conversation_id]]
    /\ served' = served + 1
    /\ UNCHANGED <<now, turns, streams>>
    /\ UNCHANGED serverFrame

get_conversation ==
    /\ served < MaxRequests
    /\ \E conversation_id \in ClientIds \cup DOMAIN conversation_store :
          response' =
             IF conversation_id \notin DOMAIN conversation_store
             THEN [NoResponse EXCEPT !.endpoint = "get_conversation",
                                     !.status = 404,
                                     !.conversation_id = conversation_id]
             ELSE [NoResponse EXCEPT !.endpoint = "get_conversation",
                                     !.status = 200,
                                     !.conversation_id = conversation_id,
                                     !.messages = conversation_store[conversation_id]]
    /\ served' = served + 1
    /\ UNCHANGED <<conversation_store, now, turns, streams>>
    /\ UNCHANGED serverFrame

\* a faulty variant: the failed turn is taken back
StoredAfterFailure_RollsBack(before, stored_messages) == before

\* except Exception: the list was appended to in place before the call, and
\* stays as it is
StoredAfterFailure(before, stored_messages) == stored_messages

conversation_chat ==
    /\ served < MaxRequests
    /\ \E conversation_id \in ClientIds \cup DOMAIN conversation_store,
          msgs \in RequestMessages, request_stream \in BOOLEAN :
          LET store1 == IF conversation_id \notin DOMAIN conversation_store
                        THEN Put(conversation_store, conversation_id, << >>)
                        ELSE conversation_store
              stored_messages == AppendUser(store1[conversation_id], msgs)
              p == format_chat_prompt(stored_messages)
              resp == [NoResponse EXCEPT !.endpoint = "conversation_chat",
                                         !.conversation_id = conversation_id,
                                         !.request = msgs]
          IN  IF request_stream
              THEN /\ Len(streams) < MaxStreams
                   /\ conversation_store' = Put(store1, conversation_id, stored_messages)
                   /\ streams' = Append(streams, [endpoint |-> "conversation_chat",
                                                  conversation_id |-> conversation_id,
                                                  state |-> "open"])
                   /\ response' = [resp EXCEPT !.status = 200, !.streaming = TRUE]
                   /\ turns' = << >>
              ELSE \E res \in RunCompletionResults(p) :
                   /\ streams' = streams
                   /\ IF res.kind = "error"
                      THEN /\ conversation_store' =
                                 Put(store1, conversation_id,
                                     StoredAfterFailure(store1[conversation_id],
                                                        stored_messages))
                           /\ response' = [resp EXCEPT !.status = 500]
                           /\ turns' = << >>
                      ELSE /\ conversation_store' =
                                 Put(store1, conversation_id,
                                     Append(stored_messages, AssistantMessage(res.content)))
                           /\ response' = [resp EXCEPT !.status = 200,
                                                       !.content = res.content]
                           /\ turns' = LastTwo(Append(turns,
                                 [conversation_id |-> conversation_id,
                                  request |-> msgs,
                                  stored_before |-> Len(store1[conversation_id]),
                                  wrote |-> TurnWrites(msgs, res.content)]))
    /\ served' = served + 1
    /\ UNCHANGED now
    /\ UNCHANGED serverFrame

chat_completions ==
    /\ served < MaxRequests
    /\ \E model \in ClientIds, msgs \in RequestMessages,
          request_stream \in BOOLEAN, model_loaded \in BOOLEAN :
          LET conversation_id == model
              stored_messages == ChatCompletionsHistory(conversation_store,
                                                        conversation_id, msgs)
              p == format_chat_prompt(stored_messages)
              resp == [NoResponse EXCEPT !.endpoint = "chat_completions",
                                         !.conversation_id = conversation_id,
                                         !.request = msgs]
          IN  IF ~model_loaded
              THEN /\ response' = [resp EXCEPT !.status = 400]
                   /\ UNCHANGED <<conversation_store, turns, streams>>
              ELSE IF request_stream
              THEN /\ Len(streams) < MaxStreams
                   /\ streams' = Append(streams, [endpoint |-> "chat_completions",
                                                  conversation_id |-> conversation_id,
                                                  state |-> "open"])
                   /\ response' = [resp EXCEPT !.status = 200, !.streaming = TRUE]
                   /\ UNCHANGED <<conversation_store, turns>>
              ELSE \E res \in RunCompletionResults(p) :
                   /\ streams' = streams
                   /\ IF res.kind = "error"
                      THEN /\ response' = [resp EXCEPT !.status = 500]
                           /\ UNCHANGED <<conversation_store, turns>>
                      ELSE /\ conversation_store' =
                                 Put(conversation_store, conversation_id,
                                     Append(stored_messages, AssistantMessage(res.content)))
                           /\ response' = [resp EXCEPT !.status = 200,
                                                       !.content = res.content]
                           /\ turns' = LastTwo(Append(turns,
                                 [conversation_id |-> conversation_id,
                                  request |-> msgs,
                                  stored_before |->
                                      IF conversation_id \in DOMAIN conversation_store
                                      THEN Len(conversation_store[conversation_id])
                                      ELSE 0,
                                  wrote |-> TurnWrites(msgs, res.content)]))
    /\ served' = served + 1
    /\ UNCHANGED now
    /\ UNCHANGED serverFrame

\* A StreamingResponse is consumed to its terminal event: generate_stream
\* does not touch conversation_store.
StreamDone ==
    /\ \E i \in 1..Len(streams) :
          /\ streams[i].state = "open"
          /\ streams' = [streams EXCEPT ![i].state = "done"]
    /\ UNCHANGED <<conversation_store, now, served, response, turns>>
    /\ UNCHANGED serverFrame

\* the process runner before any completion runs
ProcIdle ==
    /\ stream = FALSE
    /\ script = << >>
    /\ pipe = << >>
    /\ lines_read = << >>
    /\ process = "none"
    /\ ignores_sigterm = FALSE
    /\ sigterm = FALSE
    /\ expired = FALSE
    /\ response_started = FALSE
    /\ output_lines = << >>
    /\ output_buffer = << >>
    /\ events = << >>
    /\ result = [kind |-> "none", content |-> << >>]
    /\ disconnected = FALSE

Init ==
    /\ ServerInit
    /\ messages = << >>
    /\ prompt = << >>
    /\ pc = "idle"
    /\ ProcIdle

Next ==
    \/ Tick \/ create_conversation \/ get_conversation
    \/ conversation_chat \/ chat_completions \/ StreamDone

Spec == Init /\ [][Next]_vars

\* ------------------------------------------------ properties of the server

StoredBefore(conversation_id) ==
    IF conversation_id \in DOMAIN conversation_store
    THEN conversation_store[conversation_id]
    ELSE << >>

\* the step is a non-streaming chat turn that succeeded
ChatTurnSucceeds(endpoint) ==
    /\ served' = served + 1
    /\ response'.endpoint = endpoint
    /\ response'.status = 200
    /\ ~response'.streaming

LastTurn(t) == t[Len(t)]

Count(history, m) == Cardinality({i \in 1..Len(history) : history[i] = m})

\* C1: a successful non-streaming POST /v1/conversations/{id}/chat leaves the
\* stored history H followed by the request's user message followed by the
\* assistant message with the generated content, answers with that content,
\* and a GET of a stored conversation returns the stored sequence.
C1_ChatTurnAppends ==
    [][ /\ ChatTurnSucceeds("conversation_chat") =>
            LET id == response'.conversation_id
                turn == LastTurn(turns')
            IN  /\ turn.wrote[Len(turn.wrote)] = AssistantMessage(response'.content)
                /\ conversation_store'[id] = StoredBefore(id) \o turn.wrote
                /\ UserMessages(turn.request) # << >> =>
                      /\ Len(turn.wrote) = 2
                      /\ turn.wrote[1].role = "user"
        /\ (served' = served + 1 /\ response'.endpoint = "get_conversation"
              /\ response'.status = 200) =>
            response'.messages = conversation_store[response'.conversation_id]
      ]_vars

\* C1 witness: a turn with a user message has succeeded on a conversation that
\* already held a user message and its reply
C1_Witness ==
    /\ response.endpoint = "conversation_chat"
    /\ response.status = 200
    /\ ~response.streaming
    /\ response.content = Text("Hello")
    /\ Len(turns) = 2
    /\ Len(conversation_store[response.conversation_id]) = 4
    /\ conversation_store[response.conversation_id][3].role = "user"

\* C2: a chat turn whose request supplies fewer messages than are stored
\* leaves the client's list followed by the reply as the stored history.
C2_ResetReplacesHistory ==
    [][ \A endpoint \in {"conversation_chat", "chat_completions"} :
          (/\ ChatTurnSucceeds(endpoint)
           /\ UserMessages(LastTurn(turns').request) # << >>
           /\ Len(LastTurn(turns').request) < Len(StoredBefore(response'.conversation_id)))
          => conversation_store'[response'.conversation_id] =
                Append(LastTurn(turns').request, AssistantMessage(response'.content))
      ]_vars

\* C7: once two chat turns on the same conversation id have both succeeded,
\* the stored history holds what both wrote: both user messages and both
\* replies (a request that resets the conversation by sending fewer messages
\* than are stored is left aside).
C7_NoLostUpdate ==
    (/\ Len(turns) = 2
     /\ turns[1].conversation_id = turns[2].conversation_id
     /\ UserMessages(turns[1].request) # << >>
     /\ UserMessages(turns[2].request) # << >>
     /\ Len(turns[2].request) >= turns[2].stored_before)
    => LET history == conversation_store[turns[2].conversation_id]
           wrote == turns[1].wrote \o turns[2].wrote
       IN  \A i \in 1..Len(wrote) : Count(history, wrote[i]) >= Count(wrote, wrote[i])

\* C8: POST /v1/conversations returns an id that was not a key of the store
\* and maps it to the empty list, leaving every other conversation alone.
C8_CreateIsFresh ==
    [][ (served' = served + 1 /\ response'.endpoint = "create_conversation") =>
            /\ response'.conversation_id \notin DOMAIN conversation_store
            /\ conversation_store'[response'.conversation_id] = << >>
            /\ \A id \in DOMAIN conversation_store :
                  conversation_store'[id] = conversation_store[id]
      ]_vars

\* ------------------------------------------- the prompt formatter, alone

FmtRoles == {"system", "user", "assistant", "tool"}
FmtContents == { << >>, Text("Hi"), Cue }
FmtMessages == [role : FmtRoles, content : FmtContents]

RECURSIVE SeqsUpTo(_, _)
SeqsUpTo(S, n) ==
    IF n = 0 THEN { << >> }
    ELSE LET shorter == SeqsUpTo(S, n - 1)
         IN  shorter \cup { Append(q, x) : q \in {r \in shorter : Len(r) = n - 1}, x \in S }

FmtInit ==
    /\ ServerInit
    /\ ProcIdle
    /\ messages \in SeqsUpTo(FmtMessages, MaxHistory)
    /\ prompt = << >>
    /\ pc = "format"

FormatPrompt ==
    /\ pc = "format"
    /\ prompt' = format_chat_prompt(messages)
    /\ pc' = "formatted"
    /\ UNCHANGED <<serverVars, fmtVars, procVars, disconnected>>

SpecFmt == FmtInit /\ [][FormatPrompt]_vars

\* C9: for every history (empty, ending with an assistant message, with
\* contents that contain "Assistant:") the prompt ends with the cue
\* "Assistant:", the cue is not doubled at the end, and no newline follows it.
\* (The prompt is a function of the history: format_chat_prompt reads nothing
\* else.)
C9_PromptEndsWithCueOnce ==
    pc = "formatted" =>
        /\ EndsWith(prompt, Cue)
        /\ ~EndsWith(prompt, Cue \o Cue)
        /\ prompt[Len(prompt)] # "\n"

\* C9 witness: a formatted history that ends with an assistant message and
\* holds the cue as a content
C9_Witness ==
    /\ pc = "formatted"
    /\ Len(messages) = 2
    /\ messages[1].content = Cue
    /\ messages[2].role = "assistant"

\* ------------------------------------------------------ the process runner

\* a line of bytes that text mode cannot decode: reading it raises
\* UnicodeDecodeError
BadLine == <<"0xff", "\n">>
Undecodable(line) == Contains(line, <<"0xff">>)

BannerLine == <<"llama_", "load", "\n">>
CueLine == Cue \o <<" ", "Hello", "\n">>
TextLine == <<"World", "\n">>
EchoLine == <<"Q", " ", "Hi", "\n">>

ProcLines == { BannerLine, CueLine, TextLine, EchoLine, BadLine }

\* prompts of a CompletionRequest: empty, one line, a formatted chat history
ProcPrompts == { << >>, <<"Q">>, format_chat_prompt(<<UserMessage(Text("Hi"))>>) }

Failure == [kind |-> "error", content |-> << >>]

ProcInit ==
    /\ ServerInit
    /\ messages = << >>
    /\ prompt \in ProcPrompts
    /\ stream \in BOOLEAN
    /\ script \in SeqsUpTo(ProcLines, MaxScript)
    /\ pipe = << >>
    /\ lines_read = << >>
    /\ process = "none"
    /\ ignores_sigterm \in BOOLEAN
    /\ sigterm = FALSE
    /\ expired = FALSE
    /\ response_started = FALSE
    /\ output_lines = << >>
    /\ output_buffer = << >>
    /\ events = << >>
    /\ result = [kind |-> "none", content |-> << >>]
    /\ disconnected = FALSE
    /\ pc = "spawn"

Ended == pc \in {"returned", "raised", "finished"}

\* ---- the child process

ChildWrite ==
    /\ process = "running"
    /\ script # << >>
    /\ pipe' = Append(pipe, Head(script))
    /\ script' = Tail(script)
    /\ UNCHANGED <<stream, lines_read, process, ignores_sigterm, sigterm, expired,
                   response_started, output_lines, output_buffer, events, result, pc>>
    /\ UNCHANGED procFrame

\* the child exits with status 0, or upon a SIGTERM it does not ignore
ChildExit ==
    /\ process = "running"
    /\ process' = "exited"
    /\ UNCHANGED <<stream, script, pipe, lines_read, ignores_sigterm, sigterm, expired,
                   response_started, output_lines, output_buffer, events, result, pc>>
    /\ UNCHANGED procFrame

\* the child exits with a non-zero status or is ended by a signal of its own
\* (a missing model file, an abort, a segmentation fault), at any point
ChildCrash ==
    /\ process = "running"
    /\ process' = "crashed"
    /\ UNCHANGED <<stream, script, pipe, lines_read, ignores_sigterm, sigterm, expired,
                   response_started, output_lines, output_buffer, events, result, pc>>
    /\ UNCHANGED procFrame

\* the wall clock passes start_time + timeout
TimePasses ==
    /\ ~stream
    /\ process = "running"
    /\ ~expired
    /\ ~Ended
    /\ expired' = TRUE
    /\ UNCHANGED <<stream, script, pipe, lines_read, process, ignores_sigterm, sigterm,
                   response_started, output_lines, output_buffer, events, result, pc>>
    /\ UNCHANGED procFrame

\* ---- run_completion, blocking

Popen ==
    /\ pc = "spawn"
    /\ ~stream
    /\ process' = "running"
    /\ pc' = "poll"
    /\ UNCHANGED <<stream, script, pipe, lines_read, ignores_sigterm, sigterm, expired,
                   response_started, output_lines, output_buffer, events, result>>
    /\ UNCHANGED procFrame

\* subprocess.Popen raises (executable not found, ...): the except clause
PopenFails ==
    /\ pc = "spawn"
    /\ ~stream
    /\ result' = Failure
    /\ pc' = "raised"
    /\ UNCHANGED <<stream, script, pipe, lines_read, process, ignores_sigterm, sigterm,
                   expired, response_started, output_lines, output_buffer, events>>
    /\ UNCHANGED procFrame

\* while process.poll() is None: ... the timeout has passed
PollTimeout ==
    /\ pc = "poll"
    /\ process = "running"
    /\ expired
    /\ sigterm' = TRUE
    /\ result' = Failure
    /\ pc' = "raised"
    /\ UNCHANGED <<stream, script, pipe, lines_read, process, ignores_sigterm, expired,
                   response_started, output_lines, output_buffer, events>>
    /\ UNCHANGED procFrame

\* while process.poll() is None: ... the timeout has not passed
PollRunning ==
    /\ pc = "poll"
    /\ process = "running"
    /\ ~expired
    /\ pc' = "readline"
    /\ UNCHANGED <<stream, script, pipe, lines_read, process, ignores_sigterm, sigterm,
                   expired, response_started, output_lines, output_buffer, events, result>>
    /\ UNCHANGED procFrame

\* process.stdout.readline() returns a line; the rest of the loop body
Readline ==
    /\ pc = "readline"
    /\ pipe # << >>
    /\ LET line == Head(pipe)
           st == ClassifyLine(prompt,
                              [response_started |-> response_started,
                               output_lines |-> output_lines, raised |-> FALSE],
                              line)
       IN  /\ pipe' = Tail(pipe)
           /\ IF Undecodable(line) \/ st.raised
              THEN /\ result' = Failure
                   /\ pc' = "raised"
                   /\ UNCHANGED <<lines_read, response_started, output_lines>>
              ELSE /\ lines_read' = Append(lines_read, line)
                   /\ response_started' = st.response_started
                   /\ output_lines' = st.output_lines
                   /\ pc' = "poll"
                   /\ UNCHANGED result
    /\ UNCHANGED <<stream, script, process, ignores_sigterm, sigterm, expired,
                   output_buffer, events>>
    /\ UNCHANGED procFrame

\* readline() returns '' at end of file: "if not line: continue"
ReadlineEOF ==
    /\ pc = "readline"
    /\ pipe = << >>
    /\ process # "running"
    /\ pc' = "poll"
    /\ UNCHANGED <<stream, script, pipe, lines_read, process, ignores_sigterm, sigterm,
                   expired, response_started, output_lines, output_buffer, events, result>>
    /\ UNCHANGED procFrame

\* poll() is not None: the loop ends; "Clean up" finds the process gone;
\* join, strip and return
LoopExit ==
    /\ pc = "poll"
    /\ process # "running"
    /\ result' = [kind |-> "ok", content |-> ResponseText(output_lines)]
    /\ pc' = "returned"
    /\ UNCHANGED <<stream, script, pipe, lines_read, process, ignores_sigterm, sigterm,
                   expired, response_started, output_lines, output_buffer, events>>
    /\ UNCHANGED procFrame

\* ---- generate_stream

ContentEvent(text) ==
    [data |-> "json", keys |-> {"model", "created_at", "content", "done"},
     content |-> text, done |-> FALSE, error |-> FALSE]
DoneEvent ==
    [data |-> "json", keys |-> {"done"}, content |-> << >>, done |-> TRUE, error |-> FALSE]
ErrorEvent ==
    [data |-> "json", keys |-> {"error"}, content |-> << >>, done |-> FALSE, error |-> TRUE]

\* The body of generate_stream's loop for one line: the new response_started
\* and output_buffer, whether an exception was raised, and the content of the
\* event it yields (emit) if it yields one.
StreamLine(p, started, buffer, line) ==
    LET quiet == [response_started |-> started, output_buffer |-> buffer,
                  raised |-> FALSE, emit |-> FALSE, content |-> << >>]
    IN  IF IsDiagnostic(line) THEN quiet
        ELSE IF Contains(line, p) /\ ~started
        THEN IF p = << >>
             THEN [quiet EXCEPT !.raised = TRUE]
             ELSE [quiet EXCEPT !.output_buffer = SplitAfter(line, p),
                                !.response_started = TRUE]
        ELSE IF Contains(line, Cue) /\ ~started
        THEN [quiet EXCEPT !.output_buffer = SplitAfter(line, Cue),
                           !.response_started = TRUE]
        ELSE LET buf == IF started THEN buffer \o line ELSE buffer
             IN  IF buf # << >>
                 THEN [quiet EXCEPT !.output_buffer = << >>,
                                    !.emit = TRUE, !.content = Strip(buf)]
                 ELSE [quiet EXCEPT !.output_buffer = buf]

StreamPopen ==
    /\ pc = "spawn"
    /\ stream
    /\ process' = "running"
    /\ pc' = "iterate"
    /\ UNCHANGED <<stream, script, pipe, lines_read, ignores_sigterm, sigterm, expired,
                   response_started, output_lines, output_buffer, events, result>>
    /\ UNCHANGED procFrame

\* a faulty variant: the except clause swallows the exception without an event
StreamRaise_Silent(evs) == evs

\* except Exception as e: yield the error event
StreamRaise(evs) == Append(evs, ErrorEvent)

\* subprocess.Popen raises: process stays unbound
StreamPopenFails ==
    /\ pc = "spawn"
    /\ stream
    /\ events' = StreamRaise(events)
    /\ pc' = "yielded_last"
    /\ UNCHANGED <<stream, script, pipe, lines_read, process, ignores_sigterm, sigterm,
                   expired, response_started, output_lines, output_buffer, result>>
    /\ UNCHANGED procFrame

\* for line in process.stdout: the next line, and the loop body
StreamNext ==
    /\ pc = "iterate"
    /\ pipe # << >>
    /\ LET line == Head(pipe)
           st == StreamLine(prompt, response_started, output_buffer, line)
       IN  /\ pipe' = Tail(pipe)
           /\ IF Undecodable(line) \/ st.raised
              THEN /\ events' = StreamRaise(events)
                   /\ pc' = "yielded_last"
                   /\ UNCHANGED <<lines_read, response_started, output_buffer>>
              ELSE /\ lines_read' = Append(lines_read, line)
                   /\ response_started' = st.response_started
                   /\ output_buffer' = st.output_buffer
                   /\ events' = IF st.emit THEN Append(events, ContentEvent(st.content))
                                ELSE events
                   /\ pc' = IF st.emit THEN "yielded" ELSE "iterate"
    /\ UNCHANGED <<stream, script, process, ignores_sigterm, sigterm, expired,
                   output_lines, result>>
    /\ UNCHANGED procFrame

\* the iteration ends at end of file: "Send the final done message"
StreamEOF ==
    /\ pc = "iterate"
    /\ pipe = << >>
    /\ process # "running"
    /\ events' = Append(events, DoneEvent)
    /\ pc' = "yielded_last"
    /\ UNCHANGED <<stream, script, pipe, lines_read, process, ignores_sigterm, sigterm,
                   expired, response_started, output_lines, output_buffer, result>>
    /\ UNCHANGED procFrame

\* the consumer asks for the next event after a content event
StreamResume ==
    /\ pc = "yielded"
    /\ ~disconnected
    /\ pc' = "iterate"
    /\ UNCHANGED <<stream, script, pipe, lines_read, process, ignores_sigterm, sigterm,
                   expired, response_started, output_lines, output_buffer, events, result>>
    /\ UNCHANGED procFrame

\* the consumer asks for the next event after the done or error event: the
\* generator runs into its finally clause
StreamFinish ==
    /\ pc = "yielded_last"
    /\ ~disconnected
    /\ result' = [kind |-> "completed", content |-> << >>]
    /\ pc' = "finally"
    /\ UNCHANGED <<stream, script, pipe, lines_read, process, ignores_sigterm, sigterm,
                   expired, response_started, output_lines, output_buffer, events>>
    /\ UNCHANGED procFrame

\* the client closes the connection while the StreamingResponse is being
\* sent: at a yield, or while the generator is inside "for line in
\* process.stdout"
ClientDisconnects ==
    /\ stream
    /\ pc \in {"iterate", "yielded", "yielded_last"}
    /\ ~disconnected
    /\ disconnected' = TRUE
    /\ UNCHANGED <<serverVars, fmtVars, prompt, procVars, pc>>

\* the response task is cancelled: the generator is closed at the yield it
\* is suspended at, and runs its finally clause
StreamCancel ==
    /\ pc \in {"yielded", "yielded_last"}
    /\ disconnected
    /\ result' = [kind |-> "cancelled", content |-> << >>]
    /\ pc' = "finally"
    /\ UNCHANGED <<stream, script, pipe, lines_read, process, ignores_sigterm, sigterm,
                   expired, response_started, output_lines, output_buffer, events>>
    /\ UNCHANGED procFrame

\* finally: "if process and process.poll() is None: process.terminate()";
\* process is unbound when Popen raised (UnboundLocalError)
StreamCleanup ==
    /\ pc = "finally"
    /\ IF process = "none"
       THEN /\ result' = [result EXCEPT !.kind = "raised"]
            /\ pc' = "finished"
            /\ UNCHANGED sigterm
       ELSE IF process = "running"
       THEN /\ sigterm' = TRUE
            /\ pc' = "wait"
            /\ UNCHANGED result
       ELSE /\ pc' = "finished"
            /\ UNCHANGED <<sigterm, result>>
    /\ UNCHANGED <<stream, script, pipe, lines_read, process, ignores_sigterm, expired,
                   response_started, output_lines, output_buffer, events>>
    /\ UNCHANGED procFrame

\* process.wait(timeout=2) returns: the child has exited
StreamWaitReturns ==
    /\ pc = "wait"
    /\ process # "running"
    /\ pc' = "finished"
    /\ UNCHANGED <<stream, script, pipe, lines_read, process, ignores_sigterm, sigterm,
                   expired, response_started, output_lines, output_buffer, events, result>>
    /\ UNCHANGED procFrame

\* process.wait(timeout=2) raises TimeoutExpired: process.kill()
StreamWaitKills ==
    /\ pc = "wait"
    /\ process = "running"
    /\ process' = "killed"
    /\ pc' = "finished"
    /\ UNCHANGED <<stream, script, pipe, lines_read, ignores_sigterm, sigterm, expired,
                   response_started, output_lines, output_buffer, events, result>>
    /\ UNCHANGED procFrame

ProcNext ==
    \/ ChildWrite \/ ChildExit \/ ChildCrash \/ TimePasses
    \/ Popen \/ PopenFails \/ PollTimeout \/ PollRunning
    \/ Readline \/ ReadlineEOF \/ LoopExit
    \/ StreamPopen \/ StreamPopenFails \/ StreamNext \/ StreamEOF
    \/ StreamResume \/ StreamFinish \/ ClientDisconnects \/ StreamCancel
    \/ StreamCleanup \/ StreamWaitReturns \/ StreamWaitKills

SpecProc == ProcInit /\ [][ProcNext]_vars

\* The steps of the handler and of the generator: the event loop runs them
\* whenever they can be taken.  The child is under no obligation to write or
\* to exit, except that a child that does not ignore SIGTERM dies of it.
RunnerStep ==
    \/ Popen \/ PopenFails \/ PollTimeout \/ PollRunning
    \/ Readline \/ ReadlineEOF \/ LoopExit
    \/ StreamPopen \/ StreamPopenFails \/ StreamNext \/ StreamEOF
    \/ StreamResume \/ StreamFinish \/ StreamCancel
    \/ StreamCleanup \/ StreamWaitReturns \/ StreamWaitKills

DiesOfSigterm == ChildExit /\ sigterm /\ ~ignores_sigterm

SpecProcFair ==
    /\ ProcInit
    /\ [][ProcNext]_vars
    /\ WF_vars(RunnerStep)
    /\ WF_vars(DiesOfSigterm)

\* ------------------------------------------ properties of the process runner

\* the child is still alive and nothing the call did will end it: no SIGTERM
\* was sent, or the child ignores it
LeftRunning ==
    /\ process = "running"
    /\ ~sigterm \/ ignores_sigterm

\* C3: a blocking completion whose process outlasts the timeout does not
\* return or raise while the process is still running.
C3_TimeoutEndsProcess ==
    (~stream /\ expired /\ pc \in {"returned", "raised"}) => ~LeftRunning

\* C4: in blocking and in streaming mode, once the call has ended (returned,
\* raised, generator finished or closed) the child process is not running.
C4_NoChildOutlivesCall ==
    Ended => ~LeftRunning

Terminal(e) == e.done \/ e.error

\* C5: no event follows a terminal event (done or error), every event before
\* the last has done = false, and a stream that ran to completion ends with
\* exactly one terminal event.
C5_StreamEndsWithOneTerminal ==
    /\ \A i \in 1..(Len(events) - 1) : ~Terminal(events[i]) /\ events[i].done = FALSE
    /\ (stream /\ pc = "finished" /\ result.kind \in {"completed", "raised"}) =>
          /\ events # << >>
          /\ Terminal(events[Len(events)])

\* C5 witness: a stream that delivered content and then its done event, and
\* whose generator has finished
C5_Witness ==
    /\ stream
    /\ pc = "finished"
    /\ result.kind = "completed"
    /\ Len(events) = 2
    /\ events[1].content # << >>
    /\ ~events[1].done
    /\ events[2].done

\* C6: the stream of a chat completion (chat_completions returns
\* run_completion's StreamingResponse as it is) consists of chunks with a
\* choices field and ends with the literal line "data: [DONE]".
C6_ChatStreamIsOpenAIChunks ==
    (stream /\ EndsWith(prompt, Cue) /\ pc = "finished" /\ result.kind = "completed") =>
        /\ \A i \in 1..(Len(events) - 1) : "choices" \in events[i].keys
        /\ events # << >>
        /\ events[Len(events)].data = "[DONE]"

\* ------------------------------------------------- the classifier, alone

\* Lines given to the classifier as a function of any sequence of texts:
\* besides lines as readline() returns them, the prompt itself as one text
\* (with its inner newline) and a last line without a newline.
DebugLine == <<"debug", ":", " ", "x", "\n">>
ChatPrompt == format_chat_prompt(<<UserMessage(Text("Hi"))>>)
HelloThereLine == <<"Hello", " ", "there">>
EchoCueLine == <<"Q", " ", "Assistant", ":", " ", "Hi", "\n">>
DiagCueLine == <<"main", ":", " ", "Assistant", ":", " ", "x", "\n">>
DiagEchoLine == <<"main", ":", " ", "Q", "\n">>
CueEchoLine == <<"Assistant", ":", " ", "Q", " ", "Hi", "\n">>
BlankLine == <<"\n">>

ClsLines == { BannerLine, DebugLine, ChatPrompt, HelloThereLine, CueLine,
              EchoCueLine, CueEchoLine, DiagCueLine, DiagEchoLine, BlankLine }

ClsPrompts == { << >>, <<"Q">>, ChatPrompt }

ClsInit ==
    /\ ServerInit
    /\ messages = << >>
    /\ prompt \in ClsPrompts
    /\ stream \in BOOLEAN
    /\ script \in SeqsUpTo(ClsLines, MaxLines)
    /\ pipe = << >>
    /\ lines_read = << >>
    /\ process = "none"
    /\ ignores_sigterm = FALSE
    /\ sigterm = FALSE
    /\ expired = FALSE
    /\ response_started = FALSE
    /\ output_lines = << >>
    /\ output_buffer = << >>
    /\ events = << >>
    /\ result = [kind |-> "none", content |-> << >>]
    /\ disconnected = FALSE
    /\ pc = "classify"

\* the loop body of run_completion on the next line of the output
ClassifyNext ==
    /\ pc = "classify"
    /\ ~stream
    /\ script # << >>
    /\ LET line == Head(script)
           st == ClassifyLine(prompt,
                              [response_started |-> response_started,
                               output_lines |-> output_lines, raised |-> FALSE],
                              line)
       IN  /\ script' = Tail(script)
           /\ lines_read' = Append(lines_read, line)
           /\ IF st.raised
              THEN /\ result' = Failure
                   /\ pc' = "raised"
                   /\ UNCHANGED <<response_started, output_lines>>
              ELSE /\ response_started' = st.response_started
                   /\ output_lines' = st.output_lines
                   /\ UNCHANGED <<result, pc>>
    /\ UNCHANGED <<stream, pipe, process, ignores_sigterm, sigterm, expired,
                   output_buffer, events>>
    /\ UNCHANGED procFrame

\* the output has ended: "Join and clean output"
ClassifyEnd ==
    /\ pc = "classify"
    /\ ~stream
    /\ script = << >>
    /\ result' = [kind |-> "ok", content |-> ResponseText(output_lines)]
    /\ pc' = "returned"
    /\ UNCHANGED <<stream, script, pipe, lines_read, process, ignores_sigterm, sigterm,
                   expired, response_started, output_lines, output_buffer, events>>
    /\ UNCHANGED procFrame

\* the loop body of generate_stream on the next line of the output
StreamClassifyNext ==
    /\ pc = "classify"
    /\ stream
    /\ script # << >>
    /\ LET line == Head(script)
           st == StreamLine(prompt, response_started, output_buffer, line)
       IN  /\ script' = Tail(script)
           /\ lines_read' = Append(lines_read, line)
           /\ IF st.raised
              THEN /\ events' = StreamRaise(events)
                   /\ pc' = "raised"
                   /\ UNCHANGED <<response_started, output_buffer>>
              ELSE /\ response_started' = st.response_started
                   /\ output_buffer' = st.output_buffer
                   /\ events' = IF st.emit THEN Append(events, ContentEvent(st.content))
                                ELSE events
                   /\ UNCHANGED pc
    /\ UNCHANGED <<stream, pipe, process, ignores_sigterm, sigterm, expired,
                   output_lines, result>>
    /\ UNCHANGED procFrame

\* the output has ended: "Send the final done message"
StreamClassifyEnd ==
    /\ pc = "classify"
    /\ stream
    /\ script = << >>
    /\ events' = Append(events, DoneEvent)
    /\ pc' = "returned"
    /\ UNCHANGED <<stream, script, pipe, lines_read, process, ignores_sigterm, sigterm,
                   expired, response_started, output_lines, output_buffer, result>>
    /\ UNCHANGED procFrame

ClsNext == ClassifyNext \/ ClassifyEnd \/ StreamClassifyNext \/ StreamClassifyEnd

SpecCls == ClsInit /\ [][ClsNext]_vars

HasAnchor(line) == Contains(line, prompt) \/ Contains(line, Cue)

\* The response the extraction rule gives for the lines: the text after an
\* anchor in the first non-diagnostic line with an anchor, then every later
\* non-diagnostic line, trimmed (both anchors are admitted where a line holds
\* both).
ExpectedResponses(lines) ==
    LET nd == SelectSeq(lines, LAMBDA l : ~IsDiagnostic(l))
        first == CHOOSE k \in 1..Len(nd) :
                    HasAnchor(nd[k]) /\ \A j \in 1..(k - 1) : ~HasAnchor(nd[j])
        rest == Join(SubSeq(nd, first + 1, Len(nd)))
    IN  { Strip(SplitAfter(nd[first], a) \o rest) :
              a \in {x \in {prompt, Cue} : Contains(nd[first], x)} }

SomeAnchor(lines) == \E k \in 1..Len(lines) : ~IsDiagnostic(lines[k]) /\ HasAnchor(lines[k])

\* C10: for any sequence of output lines the classifier yields a response, and
\* when a non-diagnostic line holds an anchor it is the text after the anchor
\* of the first such line followed by every later non-diagnostic line, trimmed.
C10_ClassifierExtraction ==
    (~stream /\ pc # "classify") =>
        /\ pc = "returned"
        /\ SomeAnchor(lines_read) => result.content \in ExpectedResponses(lines_read)

\* The same extraction for the prompts that are not empty (checked beside
\* C10: the empty prompt is where the classifier raises).
ExtractionForNonEmptyPrompt ==
    (~stream /\ prompt # << >> /\ pc # "classify") =>
        /\ pc = "returned"
        /\ SomeAnchor(lines_read) => result.content \in ExpectedResponses(lines_read)

\* the example of the claim: ["debug: x", "User: hi\nAssistant:", "Hello there"]
ExampleIsHelloThere ==
    (~stream /\ pc = "returned"
        /\ lines_read = <<DebugLine, ChatPrompt, HelloThereLine>>) =>
        result.content = <<"Hello", " ", "there">>

\* C11: when every line of the output is diagnostic or holds neither the
\* prompt nor the cue, the classifier never leaves Seeking and the completion
\* returns normally with the empty text as its content.
C11_NoAnchorGivesEmptyResponse ==
    (~stream /\ pc # "classify" /\ ~SomeAnchor(lines_read)) =>
        /\ pc = "returned"
        /\ ~response_started
        /\ result = [kind |-> "ok", content |-> << >>]

C11_Witness ==
    /\ ~stream
    /\ prompt = <<"Q">>
    /\ lines_read = <<BannerLine, DebugLine, HelloThereLine>>
    /\ pc = "returned"
    /\ result = [kind |-> "ok", content |-> << >>]

\* the child wrote nothing at all before it ended
WroteNothing == lines_read = << >> /\ pipe = << >>

\* C12: a child that exits abnormally before producing any output makes the
\* completion end in an error (an error result when blocking, an error event
\* when streaming), never in a successful result with empty content.
C12_AbnormalExitIsError ==
    (process = "crashed" /\ WroteNothing) =>
        /\ (~stream /\ Ended) => result.kind = "error"
        /\ (stream /\ pc = "finished" /\ result.kind = "completed") =>
               \E i \in 1..Len(events) : events[i].error

\* C13: once the client of a streamed completion has closed the connection,
\* a child that is running is eventually terminated or killed, whatever the
\* generator was doing when the client went away.
C13_CancelEndsChild ==
    (stream /\ disconnected /\ process = "running") ~> (process # "running")

\* the generator is in, or past, its finally clause
InCleanup == pc \in {"finally", "wait", "finished"}

\* a stream that was not cut by the client has yielded exactly one terminal
\* event, as its last event, before the finally clause is entered, and the
\* clean-up acts on the process only from there
TerminalEventBeforeCleanup ==
    stream =>
        /\ (InCleanup /\ ~disconnected) =>
               /\ events # << >>
               /\ Terminal(events[Len(events)])
               /\ Cardinality({i \in 1..Len(events) : Terminal(events[i])}) = 1
        /\ (sigterm \/ process = "killed") => pc \in {"wait", "finished"}

\* C14: in streaming mode the terminal event (done, or one error event, never
\* both) comes first and the clean-up of the process after it, and on every
\* failure, a failure to spawn included, the clean-up completes without
\* raising a further error.
C14_CleanupAfterTerminalNeverRaises ==
    /\ TerminalEventBeforeCleanup
    /\ (stream /\ pc = "finished") => result.kind # "raised"

\* the history ends with a message of the assistant
EndsWithAssistant(history) ==
    history # << >> /\ history[Len(history)].role = "assistant"

\* C15: when the stream of a chat request with stream = true has delivered
\* its terminal event, the stored history of its conversation ends with an
\* assistant message (the generated reply).
C15_StreamedReplyStored ==
    [][\A i \in 1..Len(streams) :
          (streams[i].state = "open" /\ streams'[i].state = "done") =>
              /\ streams[i].conversation_id \in DOMAIN conversation_store'
              /\ EndsWithAssistant(conversation_store'[streams[i].conversation_id])]_vars

\* C16: GET /v1/conversations/{id} answers with exactly the list stored for
\* the id (the list last written for it), answers 404 for an id that is not
\* in the store, and in both cases leaves the store as it was, creating no
\* entry.
C16_GetReturnsStored ==
    [][(served' = served + 1 /\ response'.endpoint = "get_conversation") =>
          LET id == response'.conversation_id
          IN  /\ conversation_store' = conversation_store
              /\ IF id \in DOMAIN conversation_store
                 THEN /\ response'.status = 200
                      /\ response'.messages = conversation_store[id]
                 ELSE /\ response'.status = 404
                      /\ response'.messages = << >>]_vars

\* C16 witness: a chat turn on an id, then a GET of the id that returns the
\* two messages the turn wrote
C16_Witness ==
    /\ response.endpoint = "get_conversation"
    /\ response.status = 200
    /\ turns # << >>
    /\ LastTurn(turns).conversation_id = response.conversation_id
    /\ response.messages = conversation_store[response.conversation_id]
    /\ Len(response.messages) = 2

Extends(old, new) ==
    Len(old) <= Len(new) /\ SubSeq(new, 1, Len(old)) = old

\* the step replaces the history by a list of a chat request that is shorter
\* than the stored one
ResetByShorterList(old, new) ==
    /\ response'.endpoint \in {"chat_completions", "conversation_chat"}
    /\ \E msgs \in RequestMessages :
          /\ Len(msgs) < Len(old)
          /\ \/ new = msgs
             \/ /\ Len(new) = Len(msgs) + 1
                /\ Extends(msgs, new)
                /\ new[Len(new)].role = "assistant"

\* C17: every step leaves the stored history of an id unchanged, extends it
\* at the end, or replaces it wholly with a client-supplied list shorter than
\* the stored one.
C17_HistoryGrowsOrResets ==
    [][\A id \in DOMAIN conversation_store :
          /\ id \in DOMAIN conversation_store'
          /\ \/ Extends(conversation_store[id], conversation_store'[id])
             \/ ResetByShorterList(conversation_store[id],
                                   conversation_store'[id])]_vars

\* the step of the classifier consumes a line
Consumes(line) ==
    /\ Len(lines_read') = Len(lines_read) + 1
    /\ lines_read'[Len(lines_read')] = line

\* C18: in both classifier states and in both modes, a line holding a
\* diagnostic marker adds nothing to the response and does not start the
\* response, even when it also holds the prompt or the cue.
C18_DiagnosticLinesAreDropped ==
    [][\A line \in ClsLines :
          (Consumes(line) /\ IsDiagnostic(line)) =>
              /\ UNCHANGED <<response_started, output_lines, output_buffer>>
              /\ UNCHANGED <<events, result, pc>>]_vars

\* C18 witness: a stream whose first lines hold a marker and the prompt, a
\* marker and the cue; the response starts at the next line with the cue
C18_Witness ==
    /\ stream
    /\ prompt = <<"Q">>
    /\ lines_read = <<DiagEchoLine, DiagCueLine, CueLine>>
    /\ pc = "returned"
    /\ output_buffer = <<" ", "Hello", "\n">>
    /\ events = <<DoneEvent>>

\* the step starts the response with the text (blocking: the first collected
\* line; streaming: the buffer)
StartsResponseWith(text) ==
    /\ response_started'
    /\ IF stream THEN output_buffer' = text ELSE output_lines' = <<text>>

\* the anchor rule for one consumed line that holds no marker
AnchorRule(line) ==
    /\ response_started => response_started'
    /\ (~response_started /\ Contains(line, prompt)) =>
           StartsResponseWith(SplitAfter(line, prompt))
    /\ (~response_started /\ ~Contains(line, prompt) /\ Contains(line, Cue)) =>
           StartsResponseWith(SplitAfter(line, Cue))

\* C19: in Seeking a line without marker that holds the prompt starts the
\* response with the text after the first occurrence of the prompt, wherever
\* the cue is in the line; the cue is the anchor only of a line without the
\* prompt; the response, once started, stays started.
C19_PromptAnchorBeforeCue ==
    [][\A line \in ClsLines :
          (Consumes(line) /\ ~IsDiagnostic(line)) => AnchorRule(line)]_vars

\* The same rule for the prompts that are not empty (checked beside C19).
AnchorRuleForNonEmptyPrompt ==
    [][\A line \in ClsLines :
          (prompt # << >> /\ Consumes(line) /\ ~IsDiagnostic(line)) =>
              AnchorRule(line)]_vars

\* the lines the child wrote to its output, read or not
Written == lines_read \o pipe

\* C20: the content a blocking completion returns is the classification of
\* every line the child wrote before it exited; no line written is left
\* unread.
C20_BlockingReadsAllOutput ==
    (~stream /\ pc = "returned") =>
        /\ pipe = << >>
        /\ result.content =
              ResponseText(ClassifyAll(prompt, ClassifierStart, Written).output_lines)

\* C21: when a stream has ended, every piece of response text accumulated
\* was delivered in a content event with done = false before the terminal
\* event: no text is left in the buffer, the text after the anchor of the
\* line that starts the response included.
C21_AccumulatedTextIsDelivered ==
    (stream /\ pc = "returned") =>
        /\ Strip(output_buffer) = << >>
        /\ events # << >>
        /\ events[Len(events)] = DoneEvent
        /\ \A i \in 1..(Len(events) - 1) : ~Terminal(events[i])

\* the content fields of all events of the stream, concatenated in order
StreamedText == Join([i \in 1..Len(events) |-> events[i].content])

\* C22: for the same prompt and the same lines read to the end of the
\* output, the concatenation of the streamed contents, trimmed, is the
\* content the blocking completion returns.
C22_ModesAgree ==
    (stream /\ pc = "returned") =>
        Strip(StreamedText) = BlockingResult(prompt, lines_read).content

\* the step is a non-streaming turn of conversation_chat whose completion
\* failed
ChatTurnFails ==
    /\ served' = served + 1
    /\ response'.endpoint = "conversation_chat"
    /\ ~response'.streaming
    /\ response'.status # 200

\* C23: a failed non-streaming turn of POST /v1/conversations/{id}/chat ends
\* with status 500; the stored history of the id is the one before the turn
\* followed by the request's latest user message (if it has one) and by no
\* assistant message; every other conversation is unchanged.
C23_FailedTurnKeepsUserMessage ==
    [][ChatTurnFails =>
          LET id == response'.conversation_id
              user_messages == UserMessages(response'.request)
          IN  /\ response'.status = 500
              /\ DOMAIN conversation_store' = DOMAIN conversation_store \cup {id}
              /\ conversation_store'[id] =
                    StoredBefore(id) \o
                       (IF user_messages # << >>
                        THEN <<user_messages[Len(user_messages)]>> ELSE << >>)
              /\ \A other \in DOMAIN conversation_store \ {id} :
                    conversation_store'[other] = conversation_store[other]]_vars

\* C23 witness: the second turn on an id has failed; the history holds the
\* first turn and then the user message of the failed one
C23_Witness ==
    /\ response.endpoint = "conversation_chat"
    /\ response.status = 500
    /\ response.request = <<UserMessage(Text("Hi"))>>
    /\ response.conversation_id \in DOMAIN conversation_store
    /\ LET history == conversation_store[response.conversation_id]
       IN  /\ Len(history) = 3
           /\ history[2].role = "assistant"
           /\ history[3] = UserMessage(Text("Hi"))

RoleLabels == {"System", "User", "Assistant"}

LabelOf(role) ==
    IF role = "system" THEN "System"
    ELSE IF role = "user" THEN "User"
    ELSE IF role = "assistant" THEN "Assistant"
    ELSE "none"

\* the prompt is one line "<label>: <content>\n" per message of the history,
\* in order, with the given labels, and then the cue
OneLinePerMessage(labels) ==
    prompt = Join([i \in 1..Len(messages) |->
                      <<labels[i], ":", " ">> \o messages[i].content \o <<"\n">>])
             \o Cue

\* C25: the prompt holds, for each message of the history in order, exactly
\* one line with a label among System, User, Assistant that matches the
\* message's role where the role is one of the three, and nothing else before
\* the trailing cue: as many lines as messages, whatever their roles.
C25_OneLinePerMessage ==
    (pc = "formatted") =>
        \E labels \in [1..Len(messages) -> RoleLabels] :
            /\ \A i \in 1..Len(messages) :
                  LabelOf(messages[i].role) \in RoleLabels =>
                      labels[i] = LabelOf(messages[i].role)
            /\ OneLinePerMessage(labels)

\* The same for the histories whose roles are all among system, user and
\* assistant (checked beside C25).
OneLinePerKnownRole ==
    (pc = "formatted" /\ \A i \in 1..Len(messages) :
                             LabelOf(messages[i].role) \in RoleLabels) =>
        OneLinePerMessage([i \in 1..Len(messages) |-> LabelOf(messages[i].role)])

====
